---- MODULE Spec2Model ----
(***************************************************************************)
(* Model of src/src/pdf.js: outputPdf, the two pagination strategies       *)
(* (outputWithAdaptive / splitElement and outputWithFixedSize) and the     *)
(* jsPDF.API extensions addBlank, toCanvas, addHeader, addFooter, output2. *)
(*                                                                         *)
(* Lengths are fixed-point integers in units of 1/1000 pt, so that the     *)
(* page format 592.28 x 841.89 and the default origin (841.89 - 800) / 2   *)
(* are represented exactly.  DOM sizes (offsetWidth, offsetHeight, canvas  *)
(* width and height) are whole pixels.                                     *)
(***************************************************************************)
EXTENDS Integers, Sequences, FiniteSets, TLC

VARIABLES pc, calls, opts, pdf, image, base, dom, idx, scan, groups,
          elements, arr, accumulationHeight, currentPage, log, toCanvasCalls

vars == <<pc, calls, opts, pdf, image, base, dom, idx, scan, groups,
          elements, arr, accumulationHeight, currentPage, log, toCanvasCalls>>

\* ---------------------------------------------------------------- bounds
MaxCalls == 2
MaxItems == 3

\* ------------------------------------------------------------- constants
A4_WIDTH == 592280
A4_HEIGHT == 841890
DefaultContentWidth == 550000

\* -------------------------------------------------------------- helpers
None == <<>>
Some(v) == <<v>>

\* Math.ceil on a fixed-point length (\div rounds towards minus infinity)
MathCeil(v) == (-((-v) \div 1000)) * 1000

\* Math.ceil(a / b) for b > 0, as a whole number
CeilDiv(a, b) == -((-a) \div b)

RECURSIVE SumSeq(_)
SumSeq(s) == IF s = <<>> THEN 0 ELSE s[1] + SumSeq(Tail(s))

\* ------------------------------------------------------------ input sets
ContentHeights == {800000, 400000}
Origins == {[x |-> None, y |-> None], [x |-> Some(10000), y |-> Some(20500)]}
Modes == {"adaptive", "fixed"}
OffsetHeights == {0, 400, 900}
CanvasHeights == {0, 800, 2000}
BandCanvas == [width |-> 1100, height |-> 30]

Options ==
    [element : BOOLEAN, contentWidth : {DefaultContentWidth},
     contentHeight : ContentHeights, origin : Origins,
     header : BOOLEAN, footer : BOOLEAN,
     headerOnlyFirst : BOOLEAN, footerOnlyLast : BOOLEAN, mode : Modes]

NoOptions ==
    [element |-> FALSE, contentWidth |-> DefaultContentWidth,
     contentHeight |-> 800000, origin |-> [x |-> None, y |-> None],
     header |-> FALSE, footer |-> FALSE,
     headerOnlyFirst |-> TRUE, footerOnlyLast |-> TRUE, mode |-> "adaptive"]

\* DOM nodes as traversingNodes reads them
Item(h) == [nodeType |-> 1, item |-> TRUE, group |-> FALSE, offsetHeight |-> h, childNodes |-> <<>>]
Text == [nodeType |-> 3, item |-> FALSE, group |-> FALSE, offsetHeight |-> 0, childNodes |-> <<>>]
Group(kids) == [nodeType |-> 1, item |-> FALSE, group |-> TRUE, offsetHeight |-> 0, childNodes |-> kids]
Plain(kids) == [nodeType |-> 1, item |-> FALSE, group |-> FALSE, offsetHeight |-> 0, childNodes |-> kids]
ItemGroup(h, kids) == [nodeType |-> 1, item |-> TRUE, group |-> TRUE, offsetHeight |-> h, childNodes |-> kids]

Items(s) == [i \in 1..Len(s) |-> Item(s[i])]

HeightSeqs == UNION {[1..n -> OffsetHeights] : n \in 0..MaxItems}

FlatDom(s) == [offsetWidth |-> 550, childNodes |-> <<Text>> \o Items(s)]
GroupedDom(s) ==
    [offsetWidth |-> 1100,
     childNodes |-> <<Group(<<Text>> \o Items(s)), Plain(<<Item(900)>>)>>]
NestedDom(s) ==
    [offsetWidth |-> 550,
     childNodes |-> IF s = <<>> THEN <<Group(<<>>)>>
                    ELSE <<ItemGroup(s[1], <<Item(400)>>),
                           Group(<<Group(Items(Tail(s)))>>)>>]

Doms == UNION {{FlatDom(s), GroupedDom(s), NestedDom(s)} : s \in HeightSeqs}
NoDom == [offsetWidth |-> 550, childNodes |-> <<>>]

\* ----------------------------------------------------------- jsPDF.API
NewJsPDF == [exists |-> TRUE, pages |-> 1, header |-> None, footer |-> None]
NoPdf == [exists |-> FALSE, pages |-> 0, header |-> None, footer |-> None]

\* toCanvas: height = (width / canvasWidth) * canvasHeight
ToCanvas(canvas, width) ==
    [width |-> width, height |-> (width \div canvas.width) * canvas.height]

Op(site, x, y, w, h) ==
    [site |-> site, page |-> pdf.pages, x |-> x, y |-> y, w |-> w, h |-> h]

\* addBlank: rect(x, y, Math.ceil(width), Math.ceil(height), 'F')
AddBlank(site, x, y, width, height) == Op(site, x, y, MathCeil(width), MathCeil(height))

\* the closure addImage of outputPdf
AddImage(x, y) == Op("image", x, y, image.width, image.height)

CacheStoreForgets(slot, canvas) == slot

\* the cache test of jsPDF.API.addHeader / addFooter
Cached(slot) == slot # None

\* what addHeader / addFooter leave in this.__header / this.__footer
CacheStore(slot, canvas) == IF Cached(slot) THEN slot ELSE Some(canvas)

\* the bitmap addHeader / addFooter stamp with
BandImage(slot, width) == IF Cached(slot) THEN slot[1] ELSE ToCanvas(BandCanvas, width)

\* ------------------------------------------------------------- splitElement
RECURSIVE Visited(_)
\* offsetHeights handed to updatePos by traversingNodes, in document order
Visited(nodes) ==
    IF nodes = <<>> THEN <<>>
    ELSE LET one == nodes[1]
             here == IF one.nodeType # 1 THEN <<>>
                     ELSE IF one.item THEN <<one.offsetHeight>>
                     ELSE IF one.group THEN Visited(one.childNodes)
                     ELSE <<>>
         IN here \o Visited(Tail(nodes))

\* contentWidth / elementWidth * offsetHeight
ScaledHeight(offsetHeight) == (opts.contentWidth \div dom.offsetWidth) * offsetHeight

UpdatePosDropsPage(st, height) ==
    IF st.pos + height <= opts.contentHeight
    THEN [st EXCEPT !.pos = @ + height]
    ELSE [res |-> st.res, pos |-> height]

UpdatePosSplitsItem(st, height) ==
    IF st.pos + height <= opts.contentHeight
    THEN [st EXCEPT !.pos = @ + height]
    ELSE [res |-> Append(st.res, opts.contentHeight),
          pos |-> st.pos + height - opts.contentHeight]

UpdatePos(st, height) ==
    IF st.pos + height <= opts.contentHeight
    THEN [st EXCEPT !.pos = @ + height]
    ELSE [res |-> Append(st.res, st.pos), pos |-> height]

\* ------------------------------------------------------------ outputPdf
BaseX == IF opts.origin.x = None
         THEN (A4_WIDTH - opts.contentWidth) \div 2 ELSE opts.origin.x[1]
BaseY == IF opts.origin.y = None
         THEN (A4_HEIGHT - opts.contentHeight) \div 2 ELSE opts.origin.y[1]

PageNumFloor(height) == height \div opts.contentHeight

\* Math.ceil(height / contentHeight)
PageNum(height) == CeilDiv(height, opts.contentHeight)

Init ==
    /\ pc = "idle" /\ calls = 0 /\ opts = NoOptions /\ pdf = NoPdf
    /\ image = [width |-> 0, height |-> 0] /\ base = [x |-> 0, y |-> 0]
    /\ dom = NoDom /\ idx = 0 /\ scan = [res |-> <<>>, pos |-> 0] /\ groups = <<>>
    /\ elements = <<>> /\ arr = <<>> /\ accumulationHeight = 0 /\ currentPage = 0
    /\ log = <<>> /\ toCanvasCalls = [root |-> 0, header |-> 0, footer |-> 0]

ValidElementUnchecked(o) == TRUE

\* whether outputPdf gets past its instanceof check
ValidElement(o) == o.element

\* outputPdf is called: validation, then new jsPDF, then pdf.toCanvas is awaited
Call ==
    /\ pc \in {"idle", "done", "failed"}
    /\ calls < MaxCalls
    /\ calls' = calls + 1
    /\ \E o \in Options :
         /\ opts' = o
         /\ IF ValidElement(o)
            THEN pc' = "toCanvas" /\ pdf' = NewJsPDF
            ELSE pc' = "failed" /\ pdf' = NoPdf
    /\ image' = [width |-> 0, height |-> 0] /\ base' = [x |-> 0, y |-> 0]
    /\ dom' = NoDom /\ idx' = 0 /\ scan' = [res |-> <<>>, pos |-> 0] /\ groups' = <<>>
    /\ elements' = <<>> /\ arr' = <<>> /\ accumulationHeight' = 0 /\ currentPage' = 0
    /\ log' = <<>> /\ toCanvasCalls' = [root |-> 0, header |-> 0, footer |-> 0]

\* the root bitmap arrives; baseX, baseY; dispatch on mode
RootCanvas ==
    /\ pc = "toCanvas"
    /\ \E h \in CanvasHeights :
         LET img == ToCanvas([width |-> 550, height |-> h], opts.contentWidth)
         IN /\ image' = img
            /\ arr' = IF opts.mode = "adaptive" THEN arr
                      ELSE [i \in 1..PageNum(img.height) |-> i - 1]
    /\ toCanvasCalls' = [toCanvasCalls EXCEPT !.root = @ + 1]
    /\ base' = [x |-> BaseX, y |-> BaseY]
    /\ IF opts.mode = "adaptive"
       THEN /\ pc' = "split"
            /\ dom' \in Doms
            /\ groups' = << <<>> >>
       ELSE /\ pc' = "loop"
            /\ dom' = dom
            /\ groups' = groups
    /\ UNCHANGED <<calls, opts, pdf, idx, scan, elements,
                   accumulationHeight, currentPage, log>>

\* one item of the traversal reaches updatePos
ScanItem ==
    /\ pc = "split"
    /\ idx < Len(Visited(dom.childNodes))
    /\ LET h == ScaledHeight(Visited(dom.childNodes)[idx + 1])
           st == UpdatePos(scan, h)
       IN /\ scan' = st
          /\ groups' = IF Len(st.res) > Len(scan.res)
                       THEN Append(groups, <<h>>)
                       ELSE [groups EXCEPT ![Len(groups)] = Append(@, h)]
    /\ idx' = idx + 1
    /\ UNCHANGED <<pc, calls, opts, pdf, image, base, dom, elements, arr,
                   accumulationHeight, currentPage, log, toCanvasCalls>>

\* traversal over: res.push(pos); return res
ScanEnd ==
    /\ pc = "split"
    /\ idx = Len(Visited(dom.childNodes))
    /\ elements' = Append(scan.res, scan.pos)
    /\ pc' = "paginated"
    /\ UNCHANGED <<calls, opts, pdf, image, base, dom, idx, scan, groups, arr,
                   accumulationHeight, currentPage, log, toCanvasCalls>>

\* splitElement has returned: accumulationHeight = 0, currentPage = 0, and the
\* locals of splitElement are gone
AdaptiveLoopInit ==
    /\ pc = "paginated"
    /\ accumulationHeight' = 0
    /\ currentPage' = 0
    /\ dom' = NoDom /\ idx' = 0 /\ scan' = [res |-> <<>>, pos |-> 0] /\ groups' = <<>>
    /\ pc' = "loop"
    /\ UNCHANGED <<calls, opts, pdf, image, base, elements, arr, log, toCanvasCalls>>

\* number of iterations of the for-await loop of the chosen strategy
LoopLength == IF opts.mode = "adaptive" THEN Len(elements) ELSE Len(arr)

IsFirst == currentPage = 0
IsLast == currentPage = LoopLength - 1

\* the vertical position outputWithFixedSize hands to addImage for index i
FixedImageY(i) == base.y - i * opts.contentHeight

AdaptiveImageYByIndex == base.y - currentPage * opts.contentHeight

\* the vertical position outputWithAdaptive hands to addImage
AdaptiveImageY == base.y - accumulationHeight

\* the drawing calls of one iteration up to the header: addImage, then the blanks
PageDraw(imageY, elementHeight) ==
    <<AddImage(base.x, imageY)>>
    \o (IF ~IsFirst THEN <<AddBlank("topBlank", 0, 0, A4_WIDTH, base.y)>> ELSE <<>>)
    \o (IF ~IsLast
        THEN <<AddBlank("bottomBlank", 0, base.y + elementHeight, A4_WIDTH,
                        A4_HEIGHT - (base.y + elementHeight))>>
        ELSE <<>>)

FixedDraw ==
    /\ pc = "loop" /\ opts.mode # "adaptive"
    /\ currentPage < Len(arr)
    /\ log' = log \o PageDraw(FixedImageY(arr[currentPage + 1]), opts.contentHeight)
    /\ pc' = "header"
    /\ UNCHANGED <<calls, opts, pdf, image, base, dom, idx, scan, groups, elements,
                   arr, accumulationHeight, currentPage, toCanvasCalls>>

AdaptiveDraw ==
    /\ pc = "loop" /\ opts.mode = "adaptive"
    /\ currentPage < Len(elements)
    /\ log' = log \o PageDraw(AdaptiveImageY, elements[currentPage + 1])
    /\ accumulationHeight' = accumulationHeight + elements[currentPage + 1]
    /\ pc' = "header"
    /\ UNCHANGED <<calls, opts, pdf, image, base, dom, idx, scan, groups, elements,
                   arr, currentPage, toCanvasCalls>>

WantsHeaderFirstOnly == IsFirst

\* the closure addHeader(isFirst) of outputPdf
WantsHeader == IsFirst \/ ~opts.headerOnlyFirst

\* the closure addFooter(isLast) of outputPdf
WantsFooter == IsLast \/ ~opts.footerOnlyLast

\* await addHeader(isFirst), through to jsPDF.API.addHeader
AddHeader ==
    /\ pc = "header"
    /\ IF WantsHeader /\ opts.header
       THEN LET band == BandImage(pdf.header, opts.contentWidth)
            IN /\ toCanvasCalls' = IF Cached(pdf.header) THEN toCanvasCalls
                                   ELSE [toCanvasCalls EXCEPT !.header = @ + 1]
               /\ pdf' = [pdf EXCEPT !.header = CacheStore(@, band)]
               /\ log' = Append(log, Op("header", base.x, 0, opts.contentWidth, band.height))
       ELSE UNCHANGED <<toCanvasCalls, pdf, log>>
    /\ pc' = "footer"
    /\ UNCHANGED <<calls, opts, image, base, dom, idx, scan, groups, elements,
                   arr, accumulationHeight, currentPage>>

\* await addFooter(isLast), through to jsPDF.API.addFooter
AddFooter ==
    /\ pc = "footer"
    /\ IF WantsFooter /\ opts.footer
       THEN LET band == BandImage(pdf.footer, opts.contentWidth)
            IN /\ toCanvasCalls' = IF Cached(pdf.footer) THEN toCanvasCalls
                                   ELSE [toCanvasCalls EXCEPT !.footer = @ + 1]
               /\ pdf' = [pdf EXCEPT !.footer = CacheStore(@, band)]
               /\ log' = Append(log, Op("footer", base.x, A4_HEIGHT - band.height,
                                        opts.contentWidth, band.height))
       ELSE UNCHANGED <<toCanvasCalls, pdf, log>>
    /\ pc' = "addPage"
    /\ UNCHANGED <<calls, opts, image, base, dom, idx, scan, groups, elements,
                   arr, accumulationHeight, currentPage>>

AppendsPageAlways == TRUE

\* whether the iteration ends with pdf.addPage()
AppendsPage == ~IsLast

\* if (!isLast) pdf.addPage(); then the next iteration
AddPage ==
    /\ pc = "addPage"
    /\ IF AppendsPage
       THEN /\ log' = Append(log, Op("addPage", 0, 0, 0, 0))
            /\ pdf' = [pdf EXCEPT !.pages = @ + 1]
       ELSE UNCHANGED <<log, pdf>>
    /\ currentPage' = currentPage + 1
    /\ pc' = "loop"
    /\ UNCHANGED <<calls, opts, image, base, dom, idx, scan, groups, elements,
                   arr, accumulationHeight, toCanvasCalls>>

\* the loop is exhausted: return pdf.output2(outputType, filename)
Output2 ==
    /\ pc = "loop"
    /\ currentPage >= LoopLength
    /\ log' = Append(log, Op("output2", 0, 0, 0, 0))
    /\ pc' = "done"
    /\ UNCHANGED <<calls, opts, pdf, image, base, dom, idx, scan, groups, elements,
                   arr, accumulationHeight, currentPage, toCanvasCalls>>

Next ==
    \/ Call \/ RootCanvas \/ ScanItem \/ ScanEnd \/ AdaptiveLoopInit
    \/ FixedDraw \/ AdaptiveDraw \/ AddHeader \/ AddFooter \/ AddPage \/ Output2

Spec == Init /\ [][Next]_vars

\* ------------------------------------------------------------ properties
\* the Page Break Sequence of the running call
Entries == IF opts.mode = "adaptive" THEN elements
           ELSE [i \in 1..Len(arr) |-> opts.contentHeight]

\* the scaled heights updatePos is called with, in document order
ItemHeights ==
    [i \in 1..Len(Visited(dom.childNodes)) |-> ScaledHeight(Visited(dom.childNodes)[i])]

RECURSIVE Concat(_)
Concat(ss) == IF ss = <<>> THEN <<>> ELSE ss[1] \o Concat(Tail(ss))

PrefixSums(s) == {SumSeq(SubSeq(s, 1, k)) : k \in 0..Len(s)}

Sites(site) == {k \in 1..Len(log) : log[k].site = site}
SitesOn(site, page) == {k \in Sites(site) : log[k].page = page}

Max(a, b) == IF a >= b THEN a ELSE b

Sequenced == pc \in {"paginated", "loop", "header", "footer", "addPage", "done"}

\* C1: the entries splitElement returns sum to the sum of the item heights, the
\* items of each returned entry are consecutive items adding up to it, and an
\* entry greater than contentHeight is made of exactly one item, itself
\* greater than contentHeight.
C1_SumAndOversize ==
    pc = "paginated" =>
        /\ SumSeq(elements) = SumSeq(ItemHeights)
        /\ Len(groups) = Len(elements)
        /\ Concat(groups) = ItemHeights
        /\ \A k \in 1..Len(elements) :
             /\ SumSeq(groups[k]) = elements[k]
             /\ elements[k] > opts.contentHeight =>
                  Len(groups[k]) = 1 /\ groups[k][1] > opts.contentHeight

C1_Witness ==
    /\ pc = "paginated"
    /\ Len(elements) >= 3
    /\ \E k \in 1..Len(elements) : elements[k] > opts.contentHeight
    /\ \E k \in 1..Len(elements) : Len(groups[k]) >= 2

\* C2: every page-break offset (prefix sum of the returned entries) is a
\* prefix sum of the item heights, so no item straddles a page break.
C2_BreaksAtItemBoundaries ==
    pc = "paginated" => PrefixSums(elements) \subseteq PrefixSums(ItemHeights)

C2_Witness ==
    /\ pc = "paginated"
    /\ Len(elements) >= 3
    /\ \A k \in 1..Len(elements) : elements[k] > 0

\* C3 as stated: when the call completes the Page Canvas holds exactly N
\* pages and addPage was called exactly N-1 times, N the number of entries.
C3_ExactlyNPages ==
    pc = "done" =>
        /\ pdf.pages = Len(Entries)
        /\ Cardinality(Sites("addPage")) = Len(Entries) - 1

\* C3 amended: addPage is only ever called on a page before the last entry's;
\* on completion the canvas holds max(N, 1) pages after max(N-1, 0) addPage
\* calls.
C3_PagesAndAppends ==
    /\ Sequenced => \A k \in Sites("addPage") : log[k].page < Len(Entries)
    /\ pc = "done" =>
         /\ pdf.pages = Max(Len(Entries), 1)
         /\ Cardinality(Sites("addPage")) = Max(Len(Entries) - 1, 0)

C3_Witness ==
    /\ pc = "done"
    /\ Len(Entries) >= 3
    /\ pdf.pages = Len(Entries)

\* C4: with header and footer valid elements, once the call completes the
\* header is on page i iff i = 0 or not headerOnlyFirst, and the footer is on
\* page i iff i = N-1 or not footerOnlyLast.
C4_InclusionPolicy ==
    (pc = "done" /\ opts.header /\ opts.footer /\ Len(Entries) >= 1) =>
        \A i \in 0..(Len(Entries) - 1) :
            /\ SitesOn("header", i + 1) # {} <=> (i = 0 \/ ~opts.headerOnlyFirst)
            /\ SitesOn("footer", i + 1) # {} <=>
                   (i = Len(Entries) - 1 \/ ~opts.footerOnlyLast)

C4_Witness ==
    /\ pc = "done" /\ opts.header /\ opts.footer
    /\ Len(Entries) >= 3
    /\ ~opts.headerOnlyFirst /\ opts.footerOnlyLast

\* C5: within one call the rasterizer runs at most once for the header and at
\* most once for the footer, exactly once if the band was stamped at all, all
\* stamps of a band use the same bitmap, and every call starts with both
\* caches empty.
C5_Memoized ==
    /\ toCanvasCalls.header <= 1 /\ toCanvasCalls.footer <= 1
    /\ Sites("header") # {} => toCanvasCalls.header = 1 /\ Cached(pdf.header)
    /\ Sites("footer") # {} => toCanvasCalls.footer = 1 /\ Cached(pdf.footer)
    /\ \A k \in Sites("header") : log[k].h = pdf.header[1].height
    /\ \A k \in Sites("footer") : log[k].h = pdf.footer[1].height
    /\ pc = "toCanvas" => ~Cached(pdf.header) /\ ~Cached(pdf.footer)

C5_Witness ==
    /\ calls = 2
    /\ Cardinality(Sites("header")) >= 2
    /\ Cardinality(Sites("footer")) >= 2
    /\ toCanvasCalls.header = 1 /\ toCanvasCalls.footer = 1

\* C6 as stated: the top blank ends at or above baseY and the bottom blank
\* starts at or below baseY + entryHeight of its page.
C6_BlanksClearOfBand ==
    /\ \A k \in Sites("topBlank") : log[k].y + log[k].h <= base.y
    /\ \A k \in Sites("bottomBlank") :
         log[k].y >= base.y + Entries[log[k].page]

\* C7 as stated: the entries of the Page Break Sequence sum to the height of
\* the Rendered Image.
C7_SumsToImageHeight ==
    Sequenced => SumSeq(Entries) = image.height

\* C7 amended: in fixed mode the entries sum to the least multiple of
\* contentHeight that is >= the image height; in adaptive mode they sum to the
\* sum of the scaled item heights.
C7_SumsByStrategy ==
    /\ (Sequenced /\ opts.mode # "adaptive") =>
         /\ SumSeq(Entries) >= image.height
         /\ SumSeq(Entries) - image.height < opts.contentHeight
         /\ SumSeq(Entries) % opts.contentHeight = 0
    /\ (pc = "paginated" /\ opts.mode = "adaptive") =>
         SumSeq(Entries) = SumSeq(ItemHeights)

C7_Witness ==
    /\ pc = "done" /\ opts.mode = "fixed"
    /\ SumSeq(Entries) > image.height

\* C8: a call whose element is not an HTMLElement fails with nothing
\* rasterized, no jsPDF created, nothing drawn and nothing serialized.
C8_FailsBeforeSideEffects ==
    (calls > 0 /\ ~opts.element) =>
        /\ pc = "failed"
        /\ toCanvasCalls = [root |-> 0, header |-> 0, footer |-> 0]
        /\ ~pdf.exists
        /\ log = <<>>

C8_Witness == pc = "failed" /\ calls = 2 /\ opts.header

\* C9: the k-th addImage of the Rendered Image is on page k, at
\* (baseX, baseY - sum of the entries before k); it directly follows the
\* addPage that closed page k-1, and every blank and stamp of a page comes
\* after that page's image.
C9_PlacementAndOrder ==
    /\ \A k \in Sites("image") :
         /\ log[k].page = Cardinality({j \in Sites("image") : j <= k})
         /\ log[k].x = base.x
         /\ log[k].y = base.y - SumSeq(SubSeq(Entries, 1, log[k].page - 1))
         /\ IF log[k].page = 1 THEN k = 1
            ELSE log[k - 1].site = "addPage" /\ log[k - 1].page = log[k].page - 1
    /\ \A k \in 1..Len(log) :
         log[k].site \in {"topBlank", "bottomBlank", "header", "footer", "addPage"} =>
            \E j \in SitesOn("image", log[k].page) : j < k
    /\ \A k \in 2..Len(log) : log[k - 1].page <= log[k].page

C9_Witness ==
    /\ pc = "done" /\ opts.mode = "adaptive"
    /\ Len(elements) >= 3
    /\ elements[1] # elements[2]
    /\ Cardinality(Sites("image")) = Len(elements)

\* C10 as stated: when at least one item is visited and every item height is
\* positive, every entry splitElement returns is positive.
C10_NoEmptyPages ==
    (pc = "paginated" /\ ItemHeights # <<>>
       /\ \A i \in 1..Len(ItemHeights) : ItemHeights[i] > 0) =>
        \A k \in 1..Len(elements) : elements[k] > 0
====
